---- MODULE Spec2Model ----
(***************************************************************************)
(* ImgTag main.py: the dynamic local file gateway (serve_local_file) and   *)
(* the startup sequence (lifespan), with the background tasks it launches.  *)
(*                                                                         *)
(* Strings are sequences of one-character strings, so that normpath,       *)
(* lstrip, the substring test and str.startswith are computed on the       *)
(* characters as the code computes them.  A filesystem path is a sequence  *)
(* of components (each a string); str() of it joins them with "/".         *)
(***************************************************************************)
EXTENDS Integers, Sequences, FiniteSets, TLC

VARIABLES
    registry,      \* rows of the storage endpoint table (storage_endpoint_repository)
    link,          \* target of the symbolic link /d/p/l, NoPath when there is no link
    justAdded,     \* bucket of the LOCAL endpoint registered since the last request, or NoPath
    req,           \* the request being answered, or NoRequest
    resp,          \* its response, or NoResponse
    pc,            \* position of lifespan() in its startup half
    ledger,        \* the task table: id -> [type, status]
    migrated,      \* what the migration step ended with
    cache,         \* whether config_cache.preload() has filled the cache
    log,           \* the steps whose failure lifespan() logged
    pending_tasks, \* the list read from the ledger by the recovery pass
    tasks,         \* the asyncio tasks created so far, in creation order
    preload,       \* how the call of config_cache.preload() ended, if it was made
    finished       \* the positions in tasks of the tasks that have run to their end

gatewayVars == <<registry, link, justAdded, req, resp>>
startupVars == <<pc, ledger, migrated, cache, log, pending_tasks, tasks, preload, finished>>
vars == <<registry, link, justAdded, req, resp,
          pc, ledger, migrated, cache, log, pending_tasks, tasks, preload, finished>>

\* absent values: no path or bucket, no request, no response, no exception
NoPath == <<>>
NoException == "None"

\* ---------------------------------------------------------------- bounds
\* longest request path, in characters ("a/../a" has six)
MaxPathLen == 6
\* number of rows of the task table
MaxTasks == 2

\* ---------------------------------------------------------------- strings
DotDot == <<".", ".">>

RECURSIVE Join(_)
\* "/".join(comps)
Join(comps) ==
    IF comps = <<>> THEN <<>>
    ELSE IF Len(comps) = 1 THEN comps[1]
    ELSE comps[1] \o <<"/">> \o Join(Tail(comps))

RECURSIVE Split(_)
\* s.split("/")
Split(s) ==
    IF s = <<>> THEN << <<>> >>
    ELSE LET rest == Split(Tail(s))
         IN  IF Head(s) = "/" THEN << <<>> >> \o rest
             ELSE << <<Head(s)>> \o Head(rest) >> \o Tail(rest)

StartsWith(s, prefix) ==
    /\ Len(prefix) <= Len(s)
    /\ SubSeq(s, 1, Len(prefix)) = prefix

\* sub in s
Contains(s, sub) ==
    \E i \in 1..(Len(s) - Len(sub) + 1) : SubSeq(s, i, i + Len(sub) - 1) = sub

RECURSIVE LStrip(_)
\* s.lstrip("/")
LStrip(s) ==
    IF s # <<>> /\ Head(s) = "/" THEN LStrip(Tail(s)) ELSE s

\* posixpath.normpath: the number of leading slashes kept (0, 1, or 2 for exactly two)
InitialSlashes(path) ==
    IF ~StartsWith(path, <<"/">>) THEN 0
    ELSE IF StartsWith(path, <<"/", "/">>) /\ ~StartsWith(path, <<"/", "/", "/">>) THEN 2
    ELSE 1

RECURSIVE NormComps(_, _, _)
\* posixpath.normpath: the loop over the components
NormComps(comps, initial_slashes, new_comps) ==
    IF comps = <<>> THEN new_comps
    ELSE LET comp == Head(comps)
             rest == Tail(comps)
         IN  IF comp = <<>> \/ comp = <<".">>
             THEN NormComps(rest, initial_slashes, new_comps)
             ELSE IF \/ comp # DotDot
                     \/ (initial_slashes = 0 /\ new_comps = <<>>)
                     \/ (new_comps # <<>> /\ new_comps[Len(new_comps)] = DotDot)
             THEN NormComps(rest, initial_slashes, Append(new_comps, comp))
             ELSE IF new_comps # <<>>
             THEN NormComps(rest, initial_slashes, SubSeq(new_comps, 1, Len(new_comps) - 1))
             ELSE NormComps(rest, initial_slashes, new_comps)

\* os.path.normpath(path)
NormPath(path) ==
    IF path = <<>> THEN <<".">>
    ELSE LET initial_slashes == InitialSlashes(path)
             joined == Join(NormComps(Split(path), initial_slashes, <<>>))
             out == [i \in 1..initial_slashes |-> "/"] \o joined
         IN  IF out = <<>> THEN <<".">> ELSE out

\* normalized_path = os.path.normpath(file_path).lstrip("/")
NormalizedPath(file_path) == LStrip(NormPath(file_path))

\* ---------------------------------------------------------------- filesystem
\* settings.get_data_path(): the data directory /d
DataDir == << <<"d">> >>

\* bucket names: "p", and "pp", which has "p" as a string prefix
BucketP == <<"p">>
BucketPP == <<"p", "p">>
Buckets == {BucketP, BucketPP}

FileA == <<"a">>
FileDotted == <<"a", ".", ".", "a">>
LinkName == <<"l">>

\* directories and regular files on disk (link-free absolute paths)
Dirs ==
    { DataDir, DataDir \o <<BucketP>>, DataDir \o <<BucketPP>>, << <<"e">> >> }
Files ==
    { DataDir \o <<BucketP, FileA>>, DataDir \o <<BucketP, FileDotted>>,
      DataDir \o <<BucketPP, FileA>>, << <<"e">>, FileA >> }

\* the one symbolic link, inside bucket p, and where it may point:
\* outside the data directory, to the sibling bucket directory, to a file of its own bucket
LinkPath == DataDir \o <<BucketP, LinkName>>
LinkTargets ==
    { << <<"e">> >>, DataDir \o <<BucketPP>>, DataDir \o <<BucketP, FileA>> }

\* str(path) of an absolute path
Str(path) == <<"/">> \o Join(path)

\* base_path / normalized_path (pathlib drops empty and "." components of the string)
PathJoin(base, s) ==
    base \o SelectSeq(Split(s), LAMBDA c : c # <<>> /\ c # <<".">>)

RECURSIVE ResolveFrom(_, _, _)
\* Path.resolve(): walk the components, follow the symbolic link, keep missing tails
ResolveFrom(done, todo, target) ==
    IF todo = <<>> THEN done
    ELSE LET c == Head(todo)
             next == Append(done, c)
         IN  IF c = DotDot
             THEN ResolveFrom(IF done = <<>> THEN <<>> ELSE SubSeq(done, 1, Len(done) - 1),
                              Tail(todo), target)
             ELSE IF target # NoPath /\ next = LinkPath
             THEN ResolveFrom(<<>>, target \o Tail(todo), target)
             ELSE ResolveFrom(next, Tail(todo), target)

Resolve(path, target) == ResolveFrom(<<>>, path, target)

\* full_path.exists(), full_path.is_file() of a resolved path
PathExists(path) == path \in Dirs \cup Files
IsFile(path) == path \in Files

\* ---------------------------------------------------------------- registry
LocalProvider == "local"

\* StorageEndpoint rows; the handler reads provider and bucket_name only
Endpoint(provider, bucket) ==
    [provider |-> provider, bucket_name |-> bucket, root_path |-> DataDir \o <<bucket>>]
\* a LOCAL row for bucket pp whose root_path is the directory /e
MovedEndpoint ==
    [provider |-> LocalProvider, bucket_name |-> BucketPP, root_path |-> << <<"e">> >>]
\* the rows the registry is drawn from: both buckets as LOCAL, bucket p also as S3,
\* bucket pp also with a root_path outside the data directory
Endpoints ==
    { Endpoint(LocalProvider, BucketP), Endpoint(LocalProvider, BucketPP),
      Endpoint("s3", BucketP), MovedEndpoint }
\* bucket_name is unique per provider
UniqueNames(endpoints) ==
    \A e1, e2 \in endpoints :
        (e1.provider = e2.provider /\ e1.bucket_name = e2.bucket_name) => e1 = e2

\* ---------------------------------------------------------------- serve_local_file
\* The outcome of a request: the status and the detail of the body the client
\* receives, the file served, and the internal fault the request met (not sent).
Http(status, detail) ==
    [status |-> status, detail |-> detail, file |-> NoPath, fault |-> "none"]
FileResponse(path) ==
    [status |-> 200, detail |-> "", file |-> path, fault |-> "none"]
\* an exception no handler catches: the framework answers 500
Unhandled(fault) ==
    [status |-> 500, detail |-> "Internal Server Error", file |-> NoPath, fault |-> fault]
NoResponse == [status |-> 0, detail |-> "", file |-> NoPath, fault |-> "none"]
NoRequest == [bucket |-> NoPath, file_path |-> NoPath, fresh |-> FALSE]

\* internal faults a request can meet: the registry query raising ("db"), resolve()
\* raising ("resolve"), exists()/is_file() raising ("stat": pathlib does not swallow
\* a PermissionError)
Faults == {"none", "db", "resolve", "stat"}

\* mutant of InvalidPath: the test for ".." is dropped
InvalidPathSlashOnly(normalized_path) == StartsWith(normalized_path, <<"/">>)

InvalidPath(normalized_path) ==
    Contains(normalized_path, DotDot) \/ StartsWith(normalized_path, <<"/">>)

\* mutant of TargetEndpoint: the bucket name is not compared
TargetEndpointAnyBucket(endpoints, bucket) ==
    { ep \in endpoints : ep.provider = LocalProvider }

\* the loop over the endpoints: the matching rows (bucket_name is unique per
\* provider, so the first match is the only one); empty when target_endpoint stays None
TargetEndpoint(endpoints, bucket) ==
    { ep \in endpoints : ep.provider = LocalProvider /\ ep.bucket_name = bucket }

\* os.path.isabs(bucket)
IsAbs(bucket) == StartsWith(bucket, <<"/">>)

BasePath(bucket) ==
    IF IsAbs(bucket) THEN SelectSeq(Split(bucket), LAMBDA c : c # <<>>)
    ELSE DataDir \o <<bucket>>

\* str(full_path).startswith(str(base_path))
WithinBase(full, base) == StartsWith(Str(full), Str(base))

\* `except Exception` of the try block: whatever was raised inside it, the
\* HTTPException(403) of the containment test included, becomes 400
ExceptException(exc) ==
    [status |-> 400, detail |-> "Invalid path", file |-> NoPath,
     fault |-> IF exc = "OSError" THEN "resolve" ELSE "none"]

\* the try block: the exception it ends with, or NoException
TryResolve(full_path, base_path, target, fault) ==
    IF fault = "resolve" THEN "OSError"
    ELSE IF ~WithinBase(Resolve(full_path, target), Resolve(base_path, target))
    THEN "HTTPException403"
    ELSE NoException

\* the existence test and the response
ProbeAndSend(resolved, fault) ==
    IF fault = "stat" THEN Unhandled("stat")
    ELSE IF ~PathExists(resolved) \/ ~IsFile(resolved)
    THEN Http(404, "File not found")
    ELSE FileResponse(resolved)

ServeLocalFile(bucket, file_path, endpoints, target, fault) ==
    LET normalized_path == NormalizedPath(file_path)
    IN  IF InvalidPath(normalized_path) THEN Http(400, "Invalid path")
        ELSE IF fault = "db" THEN Unhandled("db")
        ELSE IF TargetEndpoint(endpoints, bucket) = {}
        THEN Http(404, "Storage bucket not found")
        ELSE LET base_path == BasePath(bucket)
                 full_path == PathJoin(base_path, normalized_path)
                 exc == TryResolve(full_path, base_path, target, fault)
             IN  IF exc # NoException THEN ExceptException(exc)
                 ELSE ProbeAndSend(Resolve(full_path, target), fault)

\* ---------------------------------------------------------------- requests
Segments == { <<>>, DotDot, FileA, FileDotted, LinkName }

RECURSIVE Grow(_, _)
\* the strings of S, each extended n times by "/" and a segment, up to MaxPathLen characters
Grow(S, n) ==
    IF n = 0 THEN S
    ELSE Grow(S \cup { q \in { p \o <<"/">> \o seg : p \in S, seg \in Segments } :
                           Len(q) <= MaxPathLen }, n - 1)

\* the request paths: segments joined by "/", MaxPathLen characters at most
FilePaths == Grow({ seg \in Segments : Len(seg) <= MaxPathLen }, MaxPathLen)

\* GET /data/{bucket}/{file_path}, answered once the application has started
Serve(bucket, file_path, fault) ==
    /\ pc = "serving"
    /\ resp = NoResponse
    /\ req' = [bucket |-> bucket, file_path |-> file_path, fresh |-> (justAdded = bucket)]
    /\ resp' = ServeLocalFile(bucket, file_path, registry, link, fault)
    /\ justAdded' = NoPath
    /\ UNCHANGED <<registry, link>>
    /\ UNCHANGED startupVars

\* the response is sent; the next request can be taken
Reply ==
    /\ resp # NoResponse
    /\ req' = NoRequest
    /\ resp' = NoResponse
    /\ UNCHANGED <<registry, link, justAdded>>
    /\ UNCHANGED startupVars

\* the administrative API inserts an endpoint row (bucket_name unique per provider)
AddEndpoint(ep) ==
    /\ pc = "serving"
    /\ resp = NoResponse
    /\ \A e \in registry : ~(e.provider = ep.provider /\ e.bucket_name = ep.bucket_name)
    /\ registry' = registry \cup {ep}
    /\ justAdded' = IF ep.provider = LocalProvider THEN ep.bucket_name ELSE justAdded
    /\ UNCHANGED <<link, req, resp>>
    /\ UNCHANGED startupVars

\* ---------------------------------------------------------------- lifespan
TaskIds == 1..MaxTasks
\* QUEUE_TASK_TYPES of the generic queue
QUEUE_TASK_TYPES == {"analyze_image", "rebuild_vector"}
\* the values of TaskRecord.type: the queue's, storage_sync, and one that is neither
TaskTypes == QUEUE_TASK_TYPES \cup {"storage_sync", "export"}
\* the statuses a row can have when the process starts
StartStatuses == {"pending", "processing", "done"}

Unfinished(rec) == rec.status \in {"pending", "processing"}

RECURSIVE PendingUpTo(_, _)
PendingUpTo(l, n) ==
    IF n = 0 THEN <<>>
    ELSE IF Unfinished(l[n])
    THEN Append(PendingUpTo(l, n - 1),
                [id |-> n, type |-> l[n].type, status |-> l[n].status])
    ELSE PendingUpTo(l, n - 1)

\* task_repository.get_pending_and_processing(session): the unfinished rows, by id
GetPendingAndProcessing(l) == PendingUpTo(l, MaxTasks)

\* analysis_count, sync_count
AnalysisCount(pending) == Len(SelectSeq(pending, LAMBDA t : t.type \in QUEUE_TASK_TYPES))
SyncCount(pending) == Len(SelectSeq(pending, LAMBDA t : t.type = "storage_sync"))

\* asyncio.create_task(...): the task created, by what it runs
SyncTask(id) == [runs |-> "_process_sync_task", id |-> id]
QueueTask == [runs |-> "start_processing", id |-> 0]
BackupTask == [runs |-> "schedule_daily_backup", id |-> 0]

\* mutant of SyncDispatches: every storage_sync row is dispatched twice
SyncDispatchesTwice(pending) ==
    LET rows == SelectSeq(pending, LAMBDA t : t.type = "storage_sync")
    IN  [i \in 1..(2 * Len(rows)) |-> SyncTask(rows[(i + 1) \div 2].id)]

RECURSIVE SyncDispatches(_)
\* the loop over pending_tasks: one task per storage_sync row
SyncDispatches(pending) ==
    IF pending = <<>> THEN <<>>
    ELSE IF Head(pending).type = "storage_sync"
    THEN <<SyncTask(Head(pending).id)>> \o SyncDispatches(Tail(pending))
    ELSE SyncDispatches(Tail(pending))

\* mutant of QueueLaunch: start_processing() is launched inside the loop, once per row
QueueLaunchPerRow(pending) ==
    [i \in 1..AnalysisCount(pending) |-> QueueTask]

\* task_queue.start_processing() is launched when analysis_count > 0
QueueLaunch(pending) ==
    IF AnalysisCount(pending) > 0 THEN <<QueueTask>> ELSE <<>>

\* mutant of RecoverTasks: every row read is dispatched on its own, the queue's rows too
RecoverTasksBothPaths(pending) ==
    [i \in 1..Len(pending) |-> SyncTask(pending[i].id)] \o QueueLaunch(pending)

\* the tasks the recovery pass creates for the list it read
RecoverTasks(pending) ==
    IF pending # <<>> THEN SyncDispatches(pending) \o QueueLaunch(pending) ELSE <<>>

\* how the migration can end: no alembic.ini, exit code 0, another exit code, the
\* timeout, another exception inside run_migrations_sync, run_in_executor raising
MigrationOutcomes == {"no_ini", "ok", "nonzero", "timeout", "error", "executor"}

\* the boolean run_migrations_sync() returns
RunMigrationsSync(outcome) == IF outcome = "ok" THEN "True" ELSE "False"

\* mutant of RunMigrations: a migration that did not succeed is run again
RunMigrationsRetried(outcome) ==
    /\ pc = "migrate"
    /\ migrated' = IF outcome = "executor" THEN "raised" ELSE RunMigrationsSync(outcome)
    /\ log' = IF outcome = "executor" THEN log \cup {"migrate"} ELSE log
    /\ pc' = IF outcome = "ok" \/ migrated # "none" THEN "sweep" ELSE "migrate"
    /\ UNCHANGED <<ledger, cache, pending_tasks, tasks, preload, finished>>
    /\ UNCHANGED gatewayVars

\* await loop.run_in_executor(None, run_migrations_sync), in its try/except
RunMigrations(outcome) ==
    /\ pc = "migrate"
    /\ migrated' = IF outcome = "executor" THEN "raised" ELSE RunMigrationsSync(outcome)
    /\ log' = IF outcome = "executor" THEN log \cup {"migrate"} ELSE log
    /\ pc' = "sweep"
    /\ UNCHANGED <<ledger, cache, pending_tasks, tasks, preload, finished>>
    /\ UNCHANGED gatewayVars

\* settings.get_upload_path(), then upload_service.cleanup_temp_dir() in its try/except
CleanupTemp(fails) ==
    /\ pc = "sweep"
    /\ log' = IF fails THEN log \cup {"sweep"} ELSE log
    /\ pc' = "config"
    /\ UNCHANGED <<ledger, migrated, cache, pending_tasks, tasks, preload, finished>>
    /\ UNCHANGED gatewayVars

\* how the config bootstrap can end: ensure_defaults, the commit or the preload raising
ConfigOutcomes == {"ok", "ensure_defaults", "commit", "preload"}

\* config_cache.preload() is the last call of the try block: it is reached only
\* when ensure_defaults and the commit before it did not raise
PreloadCall(outcome) ==
    IF outcome = "ok" THEN "ok"
    ELSE IF outcome = "preload" THEN "raised"
    ELSE "not_called"

\* ensure_defaults, commit and config_cache.preload() in one try/except
EnsureConfig(outcome) ==
    /\ pc = "config"
    /\ cache' = (outcome = "ok")
    /\ preload' = PreloadCall(outcome)
    /\ log' = IF outcome # "ok" THEN log \cup {"config"} ELSE log
    /\ pc' = "admin"
    /\ UNCHANGED <<ledger, migrated, pending_tasks, tasks, finished>>
    /\ UNCHANGED gatewayVars

\* init_default_admin and commit in their try/except
InitAdmin(fails) ==
    /\ pc = "admin"
    /\ log' = IF fails THEN log \cup {"admin"} ELSE log
    /\ pc' = "recover"
    /\ UNCHANGED <<ledger, migrated, cache, pending_tasks, tasks, preload, finished>>
    /\ UNCHANGED gatewayVars

\* The tasks created by the try block of the recovery pass: all of them when no
\* dispatch raises (raiseAt = 0), and those before the raiseAt-th when that one
\* raises, since one `except` ends the whole block.
DispatchedBefore(created, raiseAt) ==
    IF raiseAt = 0 THEN created ELSE SubSeq(created, 1, raiseAt - 1)

\* mutant of Recover: the ledger read is outside the try, its error leaves lifespan()
RecoverPropagates(readFails, raiseAt) ==
    /\ pc = "recover"
    /\ pending_tasks' = IF readFails THEN <<>> ELSE GetPendingAndProcessing(ledger)
    /\ raiseAt <= Len(RecoverTasks(pending_tasks'))
    /\ tasks' = tasks \o DispatchedBefore(RecoverTasks(pending_tasks'), raiseAt)
    /\ log' = IF raiseAt > 0 THEN log \cup {"recover"} ELSE log
    /\ pc' = IF readFails THEN "aborted" ELSE "backup"
    /\ UNCHANGED <<ledger, migrated, cache, preload, finished>>
    /\ UNCHANGED gatewayVars

\* the recovery pass: the ledger read and the dispatches, in one try/except; the
\* read can raise, and so can the raiseAt-th dispatch
Recover(readFails, raiseAt) ==
    /\ pc = "recover"
    /\ pending_tasks' = IF readFails THEN <<>> ELSE GetPendingAndProcessing(ledger)
    /\ raiseAt <= Len(RecoverTasks(pending_tasks'))
    /\ tasks' = tasks \o DispatchedBefore(RecoverTasks(pending_tasks'), raiseAt)
    /\ log' = IF readFails \/ raiseAt > 0 THEN log \cup {"recover"} ELSE log
    /\ pc' = "backup"
    /\ UNCHANGED <<ledger, migrated, cache, preload, finished>>
    /\ UNCHANGED gatewayVars

\* mutant of StartBackup: lifespan() awaits the tasks it created before it goes on
StartBackupAfterTasks(fails) ==
    /\ pc = "backup"
    /\ finished = 1..Len(tasks)
    /\ tasks' = IF fails THEN tasks ELSE Append(tasks, BackupTask)
    /\ log' = IF fails THEN log \cup {"backup"} ELSE log
    /\ pc' = "serving"
    /\ UNCHANGED <<ledger, migrated, cache, pending_tasks, preload, finished>>
    /\ UNCHANGED gatewayVars

\* mutant of StartBackup: lifespan() yields without launching the backup loop
YieldWithoutBackup(fails) ==
    /\ pc = "backup"
    /\ pc' = "serving"
    /\ UNCHANGED <<ledger, migrated, cache, log, pending_tasks, tasks, preload, finished>>
    /\ UNCHANGED gatewayVars

\* asyncio.create_task(schedule_daily_backup()) in its try/except, then the yield:
\* requests are accepted
StartBackup(fails) ==
    /\ pc = "backup"
    /\ tasks' = IF fails THEN tasks ELSE Append(tasks, BackupTask)
    /\ log' = IF fails THEN log \cup {"backup"} ELSE log
    /\ pc' = "serving"
    /\ UNCHANGED <<ledger, migrated, cache, pending_tasks, preload, finished>>
    /\ UNCHANGED gatewayVars

\* ---------------------------------------------------------------- background tasks
\* storage_sync_service._process_sync_task(task_id): the executor of one record. It
\* re-checks the status on entry (a finished record is left alone) and moves an
\* unfinished record to done, or to failed when the work fails.
ProcessSyncTask(l, id, ok) ==
    IF ~Unfinished(l[id]) THEN l
    ELSE [l EXCEPT ![id].status = IF ok THEN "done" ELSE "failed"]

\* The event loop runs a created _process_sync_task task to its end. The loop gets
\* control once lifespan() has yielded; start_processing() and
\* schedule_daily_backup() are loops that do not end.
SyncRun(i, ok) ==
    /\ pc = "serving"
    /\ i \in (1..Len(tasks)) \ finished
    /\ tasks[i].runs = "_process_sync_task"
    /\ finished' = finished \cup {i}
    /\ ledger' = ProcessSyncTask(ledger, tasks[i].id, ok)
    /\ UNCHANGED <<pc, migrated, cache, log, pending_tasks, tasks, preload>>
    /\ UNCHANGED gatewayVars

\* ---------------------------------------------------------------- specifications
\* The process starts: any task table, nothing done yet; no request before the yield.
StartupInit ==
    /\ pc = "migrate"
    /\ ledger \in [TaskIds -> [type : TaskTypes, status : StartStatuses]]
    /\ migrated = "none"
    /\ cache = FALSE
    /\ log = {}
    /\ pending_tasks = <<>>
    /\ tasks = <<>>
    /\ preload = "not_called"
    /\ finished = {}
    /\ registry = {}
    /\ link = NoPath
    /\ justAdded = NoPath
    /\ req = NoRequest
    /\ resp = NoResponse

StartupStep ==
    \/ \E outcome \in MigrationOutcomes : RunMigrations(outcome)
    \/ \E fails \in BOOLEAN : CleanupTemp(fails)
    \/ \E outcome \in ConfigOutcomes : EnsureConfig(outcome)
    \/ \E fails \in BOOLEAN : InitAdmin(fails)
    \/ \E readFails \in BOOLEAN, raiseAt \in 0..MaxTasks : Recover(readFails, raiseAt)
    \/ \E fails \in BOOLEAN : StartBackup(fails)

StartupSpec == StartupInit /\ [][StartupStep]_vars

\* every step of lifespan() returns or raises, so the coroutine keeps advancing
FairStartupSpec == StartupInit /\ [][StartupStep]_vars /\ WF_vars(StartupStep)

\* one request is answered at a time: the handler keeps no state between requests
Idle == pc = "serving" /\ resp = NoResponse

\* The process starts with one LOCAL endpoint registered. The steps before the
\* recovery pass succeed; the recovery pass and the backup launch can fail. Once
\* lifespan() has yielded, the event loop runs the recovered tasks while requests
\* for the file a of each bucket are answered.
BackgroundInit ==
    /\ pc = "migrate"
    /\ ledger \in [TaskIds -> [type : TaskTypes, status : StartStatuses]]
    /\ migrated = "none"
    /\ cache = FALSE
    /\ log = {}
    /\ pending_tasks = <<>>
    /\ tasks = <<>>
    /\ preload = "not_called"
    /\ finished = {}
    /\ registry = {Endpoint(LocalProvider, BucketP)}
    /\ link = NoPath
    /\ justAdded = NoPath
    /\ req = NoRequest
    /\ resp = NoResponse

\* lifespan() with its first four steps succeeding
BackgroundStartupStep ==
    \/ RunMigrations("ok")
    \/ CleanupTemp(FALSE)
    \/ EnsureConfig("ok")
    \/ InitAdmin(FALSE)
    \/ \E readFails \in BOOLEAN, raiseAt \in 0..MaxTasks : Recover(readFails, raiseAt)
    \/ \E fails \in BOOLEAN : StartBackup(fails)

BackgroundNext ==
    \/ BackgroundStartupStep
    \/ \E i \in 1..(MaxTasks + 2), ok \in BOOLEAN : SyncRun(i, ok)
    \/ Idle /\ \E b \in Buckets, fault \in Faults : Serve(b, FileA, fault)
    \/ Reply

BackgroundSpec == BackgroundInit /\ [][BackgroundNext]_vars

\* lifespan() keeps advancing; nothing makes the event loop finish a background task
FairBackgroundSpec ==
    BackgroundInit /\ [][BackgroundNext]_vars /\ WF_vars(BackgroundStartupStep)

\* The gateway once the application has started (with nothing to recover): any
\* registry content, any layout of the symbolic link.
GatewayInit ==
    /\ registry \in { r \in SUBSET Endpoints : UniqueNames(r) }
    /\ link \in LinkTargets \cup {NoPath}
    /\ justAdded = NoPath
    /\ req = NoRequest
    /\ resp = NoResponse
    /\ pc = "serving"
    /\ ledger = [id \in TaskIds |-> [type |-> "analyze_image", status |-> "done"]]
    /\ migrated = "True"
    /\ cache = TRUE
    /\ log = {}
    /\ pending_tasks = <<>>
    /\ tasks = <<BackupTask>>
    /\ preload = "ok"
    /\ finished = {}

GatewayNext ==
    \/ Idle /\ \E b \in Buckets, f \in FilePaths, fault \in Faults : Serve(b, f, fault)
    \/ Reply
    \/ \E ep \in Endpoints : AddEndpoint(ep)

GatewaySpec == GatewayInit /\ [][GatewayNext]_vars

\* ---------------------------------------------------------------- gateway claims
\* a request has been answered and its response is at hand
Answered == resp # NoResponse

\* the path has a ".." segment somewhere
HasDotDotSegment(file_path) ==
    \E i \in 1..Len(Split(file_path)) : Split(file_path)[i] = DotDot

RECURSIVE ClimbsFrom(_, _)
\* some ".." segment has no ordinary segment before it left to cancel
ClimbsFrom(comps, depth) ==
    IF comps = <<>> THEN FALSE
    ELSE IF Head(comps) = <<>> \/ Head(comps) = <<".">> THEN ClimbsFrom(Tail(comps), depth)
    ELSE IF Head(comps) = DotDot
    THEN depth = 0 \/ ClimbsFrom(Tail(comps), depth - 1)
    ELSE ClimbsFrom(Tail(comps), depth + 1)

\* a relative path that climbs above the directory it starts in
Climbs(file_path) ==
    ~StartsWith(file_path, <<"/">>) /\ ClimbsFrom(Split(file_path), 0)

\* the bucket has a LOCAL endpoint row
RegisteredLocal(bucket) ==
    \E ep \in registry : ep.provider = LocalProvider /\ ep.bucket_name = bucket

\* no endpoint row of any provider has this bucket name
Unregistered(bucket) == \A ep \in registry : ep.bucket_name # bucket

\* path q is p or lies below p, component by component
IsDescendant(q, p) == Len(p) <= Len(q) /\ SubSeq(q, 1, Len(p)) = p

\* file_path names, relative to the bucket's directory, a regular file that lies
\* in it (no symbolic link on the way)
InsideFile(bucket, file_path) ==
    \E f \in Files :
        /\ IsDescendant(f, DataDir \o <<bucket>>)
        /\ Len(f) > Len(DataDir) + 1
        /\ file_path = Join(SubSeq(f, Len(DataDir) + 2, Len(f)))

\* the requested path is valid and leads through the symbolic link, which points
\* outside the bucket's directory
ThroughEscapingLink(bucket, file_path) ==
    /\ link # NoPath
    /\ ~IsDescendant(link, DataDir \o <<bucket>>)
    /\ ~InvalidPath(NormalizedPath(file_path))
    /\ IsDescendant(PathJoin(DataDir \o <<bucket>>, NormalizedPath(file_path)), LinkPath)

\* C1 as stated: every path with a ".." segment in any position is answered 400
\* and no file is returned.
C1_AnyDotDotSegmentIs400 ==
    (Answered /\ HasDotDotSegment(req.file_path))
        => (resp.status = 400 /\ resp.file = NoPath)

\* C1 amended: for every bucket, a relative path that climbs above the directory it
\* starts in (a ".." segment not cancelled by a segment before it) is answered 400
\* and no file is returned.
C1_ClimbingPathIs400 ==
    (Answered /\ Climbs(req.file_path))
        => (resp.status = 400 /\ resp.file = NoPath)

\* C1 witness: a climbing path sent to a registered LOCAL bucket was answered 400
C1_Witness ==
    /\ Answered
    /\ Climbs(req.file_path)
    /\ RegisteredLocal(req.bucket)
    /\ req.file_path = <<".", ".", "/", "a">>
    /\ resp.status = 400

\* C2: a request to a registered LOCAL bucket whose path leads through a symbolic
\* link that points outside the bucket's directory is answered 403.
C2_EscapeThroughLinkIs403 ==
    (Answered /\ RegisteredLocal(req.bucket) /\ resp.fault = "none"
        /\ ThroughEscapingLink(req.bucket, req.file_path))
        => resp.status = 403

\* C3: whenever a file is served, the resolved file lies below the resolved directory
\* of the bucket, component by component.
C3_ServedFileIsContained ==
    (Answered /\ resp.status = 200)
        => IsDescendant(resp.file, Resolve(BasePath(req.bucket), link))

\* C4 as stated: a bucket without any endpoint row is answered 404 whatever the path
\* (here already for the requests that meet no internal fault).
C4_UnregisteredIsAlways404 ==
    (Answered /\ Unregistered(req.bucket) /\ resp.fault = "none")
        => resp.status = 404

\* C4 amended: a bucket without any endpoint row is answered 400 when the normalised
\* path still contains "..", because the path is tested before the registry is
\* read, and otherwise 404, or 500 when the registry query itself raises.
C4_UnregisteredIs400Or404 ==
    (Answered /\ Unregistered(req.bucket))
        => /\ resp.file = NoPath
           /\ resp.status =
                IF Contains(NormalizedPath(req.file_path), DotDot) THEN 400
                ELSE IF resp.fault = "db" THEN 500
                ELSE 404

\* C4 witness: an unregistered bucket, a path with a ".." segment that normalisation
\* cancels, answered 404
C4_Witness ==
    /\ Answered
    /\ Unregistered(req.bucket)
    /\ HasDotDotSegment(req.file_path)
    /\ resp.status = 404

\* C5: a regular file inside the directory of a registered LOCAL bucket, requested
\* by its path relative to that directory, is served (200, that file), whatever
\* its name.
C5_FileInsideBucketIsServed ==
    (Answered /\ RegisteredLocal(req.bucket) /\ resp.fault = "none"
        /\ InsideFile(req.bucket, req.file_path))
        => (resp.status = 200 /\ resp.file = PathJoin(DataDir \o <<req.bucket>>, req.file_path))

\* C6: every answer has one of the statuses 200, 400, 403, 404, internal faults
\* included.
C6_OnlyFourStatuses ==
    Answered => resp.status \in {200, 400, 403, 404}

\* C10: the first request after a LOCAL endpoint was added for its bucket, for a
\* file that exists in the bucket, is answered 200.
C10_NewBucketServedAtOnce ==
    (Answered /\ req.fresh /\ InsideFile(req.bucket, req.file_path))
        => resp.status = 200

\* ---------------------------------------------------------------- startup claims
\* how often task t was created
Created(t) == Cardinality({ i \in 1..Len(tasks) : tasks[i] = t })

\* the recovery pass has just ended and its ledger read succeeded
Recovered == pc = "backup" /\ "recover" \notin log

\* N: the unfinished rows of a type the generic queue manages; M: those of storage_sync
QueueRows == { id \in TaskIds : Unfinished(ledger[id]) /\ ledger[id].type \in QUEUE_TASK_TYPES }
SyncRows == { id \in TaskIds : Unfinished(ledger[id]) /\ ledger[id].type = "storage_sync" }

C8_EveryUnfinishedRowIsRedriven ==
    Recovered =>
        \A id \in TaskIds :
            Unfinished(ledger[id]) =>
                \/ Created(SyncTask(id)) > 0
                \/ (ledger[id].type \in QUEUE_TASK_TYPES /\ Created(QueueTask) > 0)

\* C9: startup reaches the point where requests are accepted, whichever of its
\* steps fail.
C9_StartupReachesServing == <>(pc = "serving")

\* C9 witness: requests are accepted after every step that can fail has failed
C9_Witness ==
    /\ pc = "serving"
    /\ log = {"migrate", "sweep", "config", "admin", "recover"}
    /\ cache = FALSE

\* ---------------------------------------------------------------- recovery claims
\* the recovery pass is over (its dispatches are made)
RecoveryOver == pc \in {"backup", "serving"}

\* the rows that are storage_sync and processing in the task table
ProcessingSyncRows ==
    { id \in TaskIds : ledger[id].type = "storage_sync" /\ ledger[id].status = "processing" }

\* the task at position i has run to its end and was the dispatch of a storage_sync
\* row that the recovery pass read as processing
FinishedProcessingSync(i) ==
    /\ i \in finished
    /\ \E j \in 1..Len(pending_tasks) :
            /\ pending_tasks[j].type = "storage_sync"
            /\ pending_tasks[j].status = "processing"
            /\ tasks[i] = SyncTask(pending_tasks[j].id)

C12_NotFoundAnswersAreIdentical ==
    (Answered /\ Unregistered(req.bucket) /\ resp.status = 404)
        => \A b \in Buckets, f \in FilePaths :
               LET other == ServeLocalFile(b, f, registry, link, "none")
               IN  (RegisteredLocal(b) /\ other.status = 404)
                       => (other.status = resp.status /\ other.detail = resp.detail)

\* the bucket name is registered, but with providers other than LOCAL only
OnlyNonLocal(bucket) ==
    /\ \E ep \in registry : ep.bucket_name = bucket
    /\ \A ep \in registry : ep.bucket_name = bucket => ep.provider # LocalProvider

\* C13: a bucket registered with non-LOCAL providers only is answered 404 for every
\* valid path: no file is served and no other status is given, also when a
\* directory of that name with the file exists under the data directory.
C13_NonLocalBucketIs404 ==
    (Answered /\ OnlyNonLocal(req.bucket) /\ ~InvalidPath(NormalizedPath(req.file_path)))
        => (resp.status = 404 /\ resp.file = NoPath)

\* ---------------------------------------------------------------- order claims
\* the positions of lifespan(), in the order of its statements
PcRank(p) ==
    CASE p = "migrate" -> 1 [] p = "sweep" -> 2 [] p = "config" -> 3 [] p = "admin" -> 4
      [] p = "recover" -> 5 [] p = "backup" -> 6 [] p = "serving" -> 7 [] OTHER -> 0

\* a task of the recovery pass exists
RecoveryDispatched ==
    \E i \in 1..Len(tasks) : tasks[i].runs \in {"_process_sync_task", "start_processing"}

\* C14: the ledger is read once per process start (lifespan() passes the read once
\* and nothing else changes the list read), the read precedes every dispatch, and
\* each row of the list read is handed to at most one execution path (its own
\* dispatch or the queue), at most once.
C14_NoRowDispatchedTwice ==
    /\ [][pc' # pc => PcRank(pc') = PcRank(pc) + 1]_vars
    /\ [][pending_tasks' # pending_tasks => (pc = "recover" /\ pc' = "backup")]_vars
    /\ [](RecoveryDispatched => RecoveryOver)
    /\ [](Created(QueueTask) <= 1)
    /\ [](\A i \in 1..Len(tasks) :
            tasks[i].runs = "_process_sync_task" =>
                /\ Created(tasks[i]) = 1
                /\ \E j \in 1..Len(pending_tasks) :
                       /\ pending_tasks[j].id = tasks[i].id
                       /\ pending_tasks[j].type \notin QUEUE_TASK_TYPES)
    /\ [](\A j, k \in 1..Len(pending_tasks) :
            pending_tasks[j].id = pending_tasks[k].id => j = k)

\* C14 witness: a list read with a storage_sync row and a queue row; the first has
\* its one dispatch, the second went to the queue, launched once
C14_Witness ==
    /\ pc = "serving"
    /\ Len(pending_tasks) = 2
    /\ pending_tasks[1].type = "storage_sync"
    /\ pending_tasks[2].type \in QUEUE_TASK_TYPES
    /\ Created(SyncTask(pending_tasks[1].id)) = 1
    /\ Created(SyncTask(pending_tasks[2].id)) = 0
    /\ Created(QueueTask) = 1

\* ---------------------------------------------------------------- isolation claims
\* the storage_sync rows of the list read that have no dispatch
UndispatchedSyncRows ==
    { j \in 1..Len(pending_tasks) :
        /\ pending_tasks[j].type = "storage_sync"
        /\ Created(SyncTask(pending_tasks[j].id)) = 0 }

\* the recovery pass is over and the dispatch of one of its storage_sync rows raised
SyncDispatchFailed == pc = "backup" /\ Len(tasks) < SyncCount(pending_tasks)

\* C15: when the dispatch of one storage_sync row fails, every other storage_sync
\* row of the list read is still dispatched, and start_processing() is still
\* launched when the list has rows the queue manages.
C15_FailedDispatchBlocksNoOther ==
    SyncDispatchFailed =>
        /\ Cardinality(UndispatchedSyncRows) <= 1
        /\ AnalysisCount(pending_tasks) > 0 => Created(QueueTask) = 1

\* ---------------------------------------------------------------- sequence claims
\* the try block of the config bootstrap has been left, by its end or by an exception
ConfigAttempted == preload # "not_called" \/ "config" \in log

\* the launch of the backup loop has been attempted: the task exists or the
\* failure of create_task was logged
BackupAttempted == Created(BackupTask) = 1 \/ "backup" \in log

\* C16: the config bootstrap has completed or failed before the recovery pass reads
\* the ledger; every recovery dispatch is launched before the backup loop is; and
\* requests are accepted only after the launch of the backup loop was attempted.
C16_StartupOrder ==
    /\ [](pc \in {"recover", "backup", "serving"} => ConfigAttempted)
    /\ [][(preload' # preload \/ cache' # cache) => (pc = "config" /\ pc' = "admin")]_vars
    /\ [][pending_tasks' # pending_tasks => ConfigAttempted]_vars
    /\ [][(\E i \in 1..Len(tasks') :
              /\ tasks'[i].runs \in {"_process_sync_task", "start_processing"}
              /\ i > Len(tasks))
            => (pc = "recover" /\ ~BackupAttempted)]_vars
    /\ [](\A i, j \in 1..Len(tasks) :
            (tasks[i] = BackupTask /\ tasks[j] # BackupTask) => j < i)
    /\ [](BackupAttempted => pc = "serving")
    /\ [](pc = "serving" => BackupAttempted)

\* C16 witness: requests are accepted; the config bootstrap had failed, two
\* dispatches and then the backup loop were launched
C16_Witness ==
    /\ pc = "serving"
    /\ preload = "raised"
    /\ Len(tasks) = 3
    /\ tasks[1].runs = "_process_sync_task"
    /\ tasks[3] = BackupTask

\* ---------------------------------------------------------------- concurrency claims
\* the tasks created that have not run to their end
Running == (1..Len(tasks)) \ finished

\* C17: startup launches the background work and never waits for it: requests come
\* to be accepted while every created task is still running, whether or not any
\* of them ever ends; and answering requests does not end or wait for a task.
C17_StartupNeverWaits ==
    /\ <>(pc = "serving" /\ Running = 1..Len(tasks))
    /\ [][resp' # resp => finished' = finished]_vars

\* C17 witness: a file is served while a sync task, the queue and the backup loop
\* are all still running
C17_Witness ==
    /\ Answered
    /\ resp.status = 200
    /\ finished = {}
    /\ Len(tasks) = 3
    /\ tasks[1].runs = "_process_sync_task"
    /\ tasks[2] = QueueTask
    /\ tasks[3] = BackupTask

\* ---------------------------------------------------------------- migration claims
\* C18: the migration is attempted once per process start and never retried; it
\* ends with a boolean (or, when the executor call itself raises, with the error
\* logged by lifespan()); and whatever it ends with, every later step runs in
\* turn until requests are accepted.
C18_MigrationOnceThenStartupGoesOn ==
    /\ [][migrated' # migrated =>
            (pc = "migrate" /\ migrated = "none" /\ pc' = "sweep")]_vars
    /\ [](pc # "migrate" =>
            \/ migrated \in {"True", "False"}
            \/ (migrated = "raised" /\ "migrate" \in log))
    /\ [][pc' # pc => PcRank(pc') = PcRank(pc) + 1]_vars
    /\ (migrated = "False") ~> (pc = "serving" /\ ConfigAttempted /\ BackupAttempted)

\* C18 witness: the migration failed and nothing else did; requests are accepted
\* with the cache loaded, the recovered tasks and the backup loop launched
C18_Witness ==
    /\ pc = "serving"
    /\ migrated = "False"
    /\ log = {}
    /\ preload = "ok"
    /\ Len(tasks) = 3
    /\ tasks[3] = BackupTask

\* ---------------------------------------------------------------- root path claims
\* C19: a file served for a bucket lies in the resolved root_path registered for
\* the bucket's LOCAL endpoint (here already without any symbolic link and
\* without internal faults).
C19_ServedFromRegisteredRoot ==
    (Answered /\ resp.status = 200 /\ link = NoPath)
        => \E ep \in TargetEndpoint(registry, req.bucket) :
               IsDescendant(resp.file, Resolve(ep.root_path, link))

\* ---------------------------------------------------------------- cache claims
\* C20: whenever requests are accepted, config_cache.preload() has been called, also
\* when ensure_defaults or its commit failed.
C20_PreloadAttemptedBeforeServing ==
    pc = "serving" => preload # "not_called"

====
